---- MODULE Spec2Model ----
(***************************************************************************)
(* The report handler of the expense tracker: GET /api/reports.            *)
(* One request is followed from the validation of its date range, through  *)
(* the two Record Store reads (Expense.findAll, Budget.findAll), the        *)
(* aggregation of the expenses and the comparison with the budgets, to its  *)
(* response.  Spec follows the whole handler with the fetches returning any *)
(* rows; AggSpec, LiveSpec and NormSpec start after the two fetches;        *)
(* StoreSpec runs the handler over the two tables while the handlers of     *)
(* /api/expenses and /api/budgets write to them.                            *)
(*                                                                         *)
(* Amounts are exact integers (minor units); a Date is its time value in   *)
(* hours, NaN for an Invalid Date; the calendar getters are read in UTC.   *)
(***************************************************************************)
EXTENDS Integers, Sequences, FiniteSets, TLC

VARIABLES
    pc,               \* position of the handler
    nodeEnv,          \* process.env.NODE_ENV
    startDate,        \* req.query.startDate
    endDate,          \* req.query.endDate
    expenses,         \* let expenses = []
    budgets,          \* let budgets = []
    expenseFetches,   \* calls of Expense.findAll made by the request
    budgetFetches,    \* calls of Budget.findAll made by the request
    err,              \* the error caught by the outer catch, if any
    totalExpenses,
    categoryTotals,
    expensesByCategory,
    monthTotals,
    expensesByMonth,
    budgetComparison,
    responses,        \* what was sent with res.json, in order
    user,             \* req.user.id
    expenseStore,     \* the rows of the expenses table
    budgetStore,      \* the rows of the budgets table
    storeStates,      \* the states the two tables went through during the request
    writes            \* writes of other handlers during the request

vars == <<pc, nodeEnv, startDate, endDate, expenses, budgets, expenseFetches,
          budgetFetches, err, totalExpenses, categoryTotals, expensesByCategory,
          monthTotals, expensesByMonth, budgetComparison, responses, user,
          expenseStore, budgetStore, storeStates, writes>>

-----------------------------------------------------------------------------
(* Bounds *)

MaxRows == 2

\* Writes of other handlers while one report request is in progress
MaxWrites == 2

-----------------------------------------------------------------------------
(* Values *)

\* A number or NaN, as parseFloat and Date.prototype.getTime return it.
Num(n) == [nan |-> FALSE, v |-> n]

NaN == [nan |-> TRUE, v |-> 0]

isNaN(x) == x.nan

\* A date-like text: an ISO text "YYYY-MM-DD" or "YYYY-MM-DDTHH:00Z", a text
\* that is no date, the empty text, or no value at all.
Iso(y, m, d, h) == [kind |-> "iso", y |-> y, m |-> m, d |-> d, h |-> h]

Garbage == [kind |-> "garbage", y |-> 0, m |-> 0, d |-> 0, h |-> 0]

EmptyText == [kind |-> "empty", y |-> 0, m |-> 0, d |-> 0, h |-> 0]

Absent == [kind |-> "absent", y |-> 0, m |-> 0, d |-> 0, h |-> 0]

\* !x of a text or a missing value
Falsy(x) == x.kind \in {"empty", "absent"}

\* Days from 1970-01-01 to the civil date y-m-d.
DaysFromCivil(y, m, d) ==
    LET yy  == IF m <= 2 THEN y - 1 ELSE y
        era == yy \div 400
        yoe == yy - era * 400
        mp  == (m + 9) % 12
        doy == (153 * mp + 2) \div 5 + d - 1
        doe == yoe * 365 + yoe \div 4 - yoe \div 100 + doy
    IN  era * 146097 + doe - 719468

\* The civil date of a day number, <<year, month (1..12), day>>.
CivilFromDays(z0) ==
    LET z   == z0 + 719468
        era == z \div 146097
        doe == z - era * 146097
        yoe == (doe - doe \div 1460 + doe \div 36524 - doe \div 146096) \div 365
        doy == doe - (365 * yoe + yoe \div 4 - yoe \div 100)
        mp  == (5 * doy + 2) \div 153
        d   == doy - (153 * mp + 2) \div 5 + 1
        m   == IF mp < 10 THEN mp + 3 ELSE mp - 9
        y   == yoe + era * 400 + (IF m <= 2 THEN 1 ELSE 0)
    IN  <<y, m, d>>

HoursPerDay == 24

\* new Date(text).getTime(), in hours
ParseDate(x) ==
    IF x.kind = "iso" /\ x.m \in 1..12 /\ x.d \in 1..31 /\ x.h \in 0..23
    THEN Num(DaysFromCivil(x.y, x.m, x.d) * HoursPerDay + x.h)
    ELSE NaN

getFullYear(t) == CivilFromDays(t \div HoursPerDay)[1]

\* 0-based, as Date.prototype.getMonth
getMonth(t) == CivilFromDays(t \div HoursPerDay)[2] - 1

getDate(t) == CivilFromDays(t \div HoursPerDay)[3]

-----------------------------------------------------------------------------
(* Date range validation *)

\* ValidateRange with the range check written end <= start
ValidateRangeStrict(sd, ed) ==
    IF Falsy(sd) \/ Falsy(ed) THEN "InvalidInput"
    ELSE IF isNaN(ParseDate(sd)) \/ isNaN(ParseDate(ed)) THEN "InvalidFormat"
    ELSE IF ParseDate(ed).v <= ParseDate(sd).v THEN "InvalidRange"
    ELSE "ok"

\* ValidateRange with the dates parsed before the presence check
ValidateRangeParseFirst(sd, ed) ==
    IF isNaN(ParseDate(sd)) \/ isNaN(ParseDate(ed)) THEN "InvalidFormat"
    ELSE IF Falsy(sd) \/ Falsy(ed) THEN "InvalidInput"
    ELSE IF ParseDate(ed).v < ParseDate(sd).v THEN "InvalidRange"
    ELSE "ok"

ValidateRange(sd, ed) ==
    IF Falsy(sd) \/ Falsy(ed) THEN "InvalidInput"
    ELSE IF isNaN(ParseDate(sd)) \/ isNaN(ParseDate(ed)) THEN "InvalidFormat"
    ELSE IF ParseDate(ed).v < ParseDate(sd).v THEN "InvalidRange"
    ELSE "ok"

ValidationMessage(outcome) ==
    CASE outcome = "InvalidInput"  -> "Please provide startDate and endDate"
      [] outcome = "InvalidFormat" -> "Invalid date format"
      [] outcome = "InvalidRange"  -> "End date cannot be before start date"

BadRequest(message) ==
    [status |-> 400, body |-> [success |-> FALSE, message |-> message]]

-----------------------------------------------------------------------------
(* Records of the Record Store *)

\* An amount column as the handler may read it: a number (or numeric text),
\* a text that is no number, or nothing (null, undefined, "").
Amount(n) == [kind |-> "num", v |-> n]

NotANumber == [kind |-> "text", v |-> 0]

NoAmount == [kind |-> "empty", v |-> 0]

ExpenseRow(a, c, d) == [amount |-> a, category |-> c, date |-> d]

BudgetRow(a, c, p) == [amount |-> a, category |-> c, period |-> p]

\* parseFloat(expense.amount || 0)
ParseAmount(a) ==
    CASE a.kind = "empty" -> Num(0)
      [] a.kind = "text"  -> NaN
      [] a.kind = "num"   -> Num(a.v)

-----------------------------------------------------------------------------
(* Aggregation *)

\* SumStep returning 0, not the running sum, for an amount that is no number
SumStepReset(sum, expense) ==
    LET amount == ParseAmount(expense.amount)
    IN  IF isNaN(amount) THEN 0 ELSE sum + amount.v

\* SumStep leaving out a record whose date does not parse
SumStepSkipBadDate(sum, expense) ==
    LET amount == ParseAmount(expense.amount)
    IN  IF isNaN(amount) \/ isNaN(ParseDate(expense.date)) THEN sum ELSE sum + amount.v

\* The callback of expenses.reduce
SumStep(sum, expense) ==
    LET amount == ParseAmount(expense.amount)
    IN  IF isNaN(amount) THEN sum ELSE sum + amount.v

RECURSIVE Reduce(_, _)
Reduce(rows, sum) ==
    IF rows = <<>> THEN sum ELSE Reduce(Tail(rows), SumStep(sum, Head(rows)))

TotalExpenses(rows) == Reduce(rows, 0)

\* An object used as a map, as the list of its own keys in insertion order
\* with their values.
HasKey(totals, key) == \E i \in DOMAIN totals : totals[i].key = key

\* The same key up to the case of its letters
Folded(key) == IF key = "food" THEN "Food" ELSE key

RECURSIVE LookupFolded(_, _)
\* Lookup adding up every key that differs from key only by case
LookupFolded(totals, key) ==
    IF totals = <<>> THEN 0
    ELSE (IF Folded(Head(totals).key) = Folded(key) THEN Head(totals).amount ELSE 0)
            + LookupFolded(Tail(totals), key)

\* totals[key] || 0
Lookup(totals, key) ==
    IF HasKey(totals, key)
    THEN (CHOOSE e \in {totals[i] : i \in DOMAIN totals} : e.key = key).amount
    ELSE 0

\* if (!totals[key]) totals[key] = 0;  totals[key] += amount
AddTo(totals, key, amount) ==
    IF HasKey(totals, key)
    THEN [i \in DOMAIN totals |->
            IF totals[i].key = key
            THEN [key |-> key, amount |-> totals[i].amount + amount]
            ELSE totals[i]]
    ELSE Append(totals, [key |-> key, amount |-> amount])

\* totals[key] = amount
Put(totals, key, amount) ==
    IF HasKey(totals, key)
    THEN [i \in DOMAIN totals |->
            IF totals[i].key = key THEN [key |-> key, amount |-> amount] ELSE totals[i]]
    ELSE Append(totals, [key |-> key, amount |-> amount])

\* CategoryOf keeping a missing category as it is
CategoryOfKeepEmpty(expense) == expense.category

\* expense.category || 'other'
CategoryOf(expense) == IF expense.category = "" THEN "other" ELSE expense.category

\* CategoryStep assigning the amount to the category's total, not adding it
CategoryStepOverwrite(totals, expense) ==
    LET category == CategoryOf(expense)
        amount   == ParseAmount(expense.amount)
    IN  IF isNaN(amount) THEN totals ELSE Put(totals, category, amount.v)

\* CategoryStep counting an amount that is no number as 0, not skipping it
CategoryStepNaNAsZero(totals, expense) ==
    LET category == CategoryOf(expense)
        amount   == ParseAmount(expense.amount)
    IN  AddTo(totals, category, IF isNaN(amount) THEN 0 ELSE amount.v)

\* CategoryStep making no entry for an amount of 0
CategoryStepSkipZero(totals, expense) ==
    LET category == CategoryOf(expense)
        amount   == ParseAmount(expense.amount)
    IN  IF isNaN(amount) THEN totals
        ELSE IF amount.v = 0 THEN totals
        ELSE AddTo(totals, category, amount.v)

\* The callback of the first expenses.forEach
CategoryStep(totals, expense) ==
    LET category == CategoryOf(expense)
        amount   == ParseAmount(expense.amount)
    IN  IF isNaN(amount) THEN totals ELSE AddTo(totals, category, amount.v)

RECURSIVE CategoryTotals(_, _)
CategoryTotals(rows, totals) ==
    IF rows = <<>> THEN totals
    ELSE CategoryTotals(Tail(rows), CategoryStep(totals, Head(rows)))

\* `${date.getFullYear()}-${(date.getMonth() + 1).toString().padStart(2, '0')}`
MonthKey(t) == <<getFullYear(t), getMonth(t) + 1>>

\* MonthStep assigning the amount to the month's total, not adding it
MonthStepOverwrite(totals, expense) ==
    LET date   == ParseDate(expense.date)
        amount == ParseAmount(expense.amount)
    IN  IF isNaN(date) THEN totals
        ELSE IF isNaN(amount) THEN totals
        ELSE Put(totals, MonthKey(date.v), amount.v)

\* MonthStep without the test of the date: an Invalid Date gets a month key too
MonthStepNoDateCheck(totals, expense) ==
    LET date   == ParseDate(expense.date)
        amount == ParseAmount(expense.amount)
    IN  IF isNaN(amount) THEN totals
        ELSE AddTo(totals, IF isNaN(date) THEN <<0, 0>> ELSE MonthKey(date.v), amount.v)

\* MonthStep counting an amount that is no number as 0, not skipping it
MonthStepNaNAsZero(totals, expense) ==
    LET date   == ParseDate(expense.date)
        amount == ParseAmount(expense.amount)
    IN  IF isNaN(date) THEN totals
        ELSE AddTo(totals, MonthKey(date.v), IF isNaN(amount) THEN 0 ELSE amount.v)

\* MonthStep leaving out a record dated outside the requested window
MonthStepClipped(totals, expense) ==
    LET date   == ParseDate(expense.date)
        amount == ParseAmount(expense.amount)
    IN  IF isNaN(date) THEN totals
        ELSE IF isNaN(amount) THEN totals
        ELSE IF date.v < ParseDate(startDate).v \/ date.v > ParseDate(endDate).v
             THEN totals
        ELSE AddTo(totals, MonthKey(date.v), amount.v)

\* The callback of the second expenses.forEach
MonthStep(totals, expense) ==
    LET date   == ParseDate(expense.date)
        amount == ParseAmount(expense.amount)
    IN  IF isNaN(date) THEN totals
        ELSE IF isNaN(amount) THEN totals
        ELSE AddTo(totals, MonthKey(date.v), amount.v)

RECURSIVE MonthTotals(_, _)
MonthTotals(rows, totals) ==
    IF rows = <<>> THEN totals
    ELSE MonthTotals(Tail(rows), MonthStep(totals, Head(rows)))

\* Object.keys(categoryTotals).forEach(category => expensesByCategory.push(..))
ByCategory(totals) ==
    [i \in DOMAIN totals |-> [category |-> totals[i].key, amount |-> totals[i].amount]]

\* Object.keys(monthTotals).forEach(month => expensesByMonth.push(..))
ByMonth(totals) ==
    [i \in DOMAIN totals |-> [month |-> totals[i].key, amount |-> totals[i].amount]]

-----------------------------------------------------------------------------
(* Period normalisation and budget comparison *)

Max(a, b) == IF a >= b THEN a ELSE b

\* Math.ceil(a / b) for a >= 0, b > 0
Ceil(a, b) == (a + b - 1) \div b

\* MonthDiff from the months alone, the years left out
MonthDiffSameYear(start, end) == getMonth(end) - getMonth(start) + 1

\* MonthDiff without the + 1
MonthDiffExclusive(start, end) ==
    (getFullYear(end) - getFullYear(start)) * 12 + (getMonth(end) - getMonth(start))

\* startDate.setDate(1); endDate.setDate(1); the month difference plus one
MonthDiff(start, end) ==
    (getFullYear(end) - getFullYear(start)) * 12 + (getMonth(end) - getMonth(start)) + 1

Months(start, end) == Max(1, MonthDiff(start, end))

DaysPerWeek == 7

\* Weeks without Math.max(1, ..)
WeeksNoClamp(start, end) ==
    LET diffTime == Max(0, end - start)
        days     == Ceil(diffTime, HoursPerDay)
    IN  Ceil(days, DaysPerWeek)

Weeks(start, end) ==
    LET diffTime == Max(0, end - start)
        days     == Ceil(diffTime, HoursPerDay)
    IN  Max(1, Ceil(days, DaysPerWeek))

MonthsPerQuarter == 3

Quarters(start, end) ==
    IF MonthDiff(start, end) <= 0 THEN 1
    ELSE Max(1, Ceil(MonthDiff(start, end), MonthsPerQuarter))

\* Years counting the last, partial year whatever the month and day
YearsAlwaysPlusOne(start, end) ==
    Max(1, getFullYear(end) - getFullYear(start) + 1)

Years(start, end) ==
    LET yearDiff == getFullYear(end) - getFullYear(start)
        onOrAfter == \/ getMonth(end) > getMonth(start)
                     \/ /\ getMonth(end) = getMonth(start)
                        /\ getDate(end) >= getDate(start)
    IN  Max(1, yearDiff + (IF onOrAfter THEN 1 ELSE 0))

\* parseFloat(budget.amount), 0 when that is NaN
ParseBudgetAmount(a) == IF a.kind = "num" THEN a.v ELSE 0

\* budget.period || 'monthly'
PeriodOf(budget) == IF budget.period = "" THEN "monthly" ELSE budget.period

\* AdjustedBudgetAmount taking an unknown period for monthly
AdjustedDefaultMonthly(budget, start, end) ==
    LET budgetAmount == ParseBudgetAmount(budget.amount)
        period       == PeriodOf(budget)
    IN  CASE period = "weekly"    -> budgetAmount * Weeks(start, end)
          [] period = "quarterly" -> budgetAmount * Quarters(start, end)
          [] period = "yearly"    -> budgetAmount * Years(start, end)
          [] OTHER                -> budgetAmount * Months(start, end)

AdjustedBudgetAmount(budget, start, end) ==
    LET budgetAmount == ParseBudgetAmount(budget.amount)
        period       == PeriodOf(budget)
    IN  CASE period = "monthly"   -> budgetAmount * Months(start, end)
          [] period = "weekly"    -> budgetAmount * Weeks(start, end)
          [] period = "quarterly" -> budgetAmount * Quarters(start, end)
          [] period = "yearly"    -> budgetAmount * Years(start, end)
          [] OTHER                -> budgetAmount

\* CompareStep keeping one entry per category: a second budget of a category
\* is added to the entry of the first.
CompareStepMerge(comparison, budget, totals, start, end) ==
    IF budget.category = "" THEN comparison
    ELSE LET actualAmount         == Lookup(totals, budget.category)
             adjustedBudgetAmount == AdjustedBudgetAmount(budget, start, end)
         IN  IF \E i \in DOMAIN comparison : comparison[i].category = budget.category
             THEN [i \in DOMAIN comparison |->
                     IF comparison[i].category = budget.category
                     THEN [category   |-> budget.category,
                           budget     |-> comparison[i].budget + adjustedBudgetAmount,
                           actual     |-> actualAmount,
                           difference |-> comparison[i].budget + adjustedBudgetAmount
                                              - actualAmount]
                     ELSE comparison[i]]
             ELSE Append(comparison,
                         [category   |-> budget.category,
                          budget     |-> adjustedBudgetAmount,
                          actual     |-> actualAmount,
                          difference |-> adjustedBudgetAmount - actualAmount])

\* The body of the loop over budgets
CompareStep(comparison, budget, totals, start, end) ==
    IF budget.category = "" THEN comparison
    ELSE LET actualAmount         == Lookup(totals, budget.category)
             adjustedBudgetAmount == AdjustedBudgetAmount(budget, start, end)
         IN  Append(comparison,
                    [category   |-> budget.category,
                     budget     |-> adjustedBudgetAmount,
                     actual     |-> actualAmount,
                     difference |-> adjustedBudgetAmount - actualAmount])

RECURSIVE BudgetComparison(_, _, _, _, _)
BudgetComparison(rows, comparison, totals, start, end) ==
    IF rows = <<>> THEN comparison
    ELSE BudgetComparison(Tail(rows),
                          CompareStep(comparison, Head(rows), totals, start, end),
                          totals, start, end)

-----------------------------------------------------------------------------
(* Inputs *)

Jan5 == Iso(2024, 1, 5, 0)

Jan5Noon == Iso(2024, 1, 5, 12)

Feb10 == Iso(2024, 2, 10, 0)

BadMonth == Iso(2024, 13, 1, 0)

QueryDates == {Absent, EmptyText, Garbage, BadMonth, Jan5, Jan5Noon, Feb10}

NodeEnvs == {"development", "production"}

Amounts == {Amount(5), Amount(20), NotANumber, NoAmount}

Categories == {"Food", "other", ""}

ExpenseDates == {Jan5, Feb10, Garbage}

ExpenseRows == {ExpenseRow(a, c, d) : a \in Amounts, c \in Categories, d \in ExpenseDates}

\* The rows the request handler is run on: one of each kind of record.
SampleExpenses ==
    { ExpenseRow(Amount(5), "Food", Jan5),
      ExpenseRow(Amount(20), "other", Feb10),
      ExpenseRow(NotANumber, "Food", Jan5),
      ExpenseRow(NoAmount, "", Feb10),
      ExpenseRow(Amount(5), "", Garbage) }

SampleBudgets ==
    { BudgetRow(Amount(100), "Food", "monthly"),
      BudgetRow(Amount(100), "other", "weekly"),
      BudgetRow(NotANumber, "Food", "quarterly"),
      BudgetRow(Amount(100), "", "yearly"),
      BudgetRow(NoAmount, "other", "biannual") }

SeqsUpTo(S, n) == UNION {[1..k -> S] : k \in 0..n}

\* What a failing findAll rejects with.
StoreErrors ==
    { [name |-> "SequelizeConnectionError", message |-> "connect ECONNREFUSED"],
      [name |-> "SequelizeDatabaseError", message |-> "Unknown column"],
      [name |-> "SequelizeValidationError", message |-> "Validation error"] }

NoError == [name |-> "none", message |-> "none"]

-----------------------------------------------------------------------------
(* The handler *)

\* WrapError rethrowing the store's error as it is
WrapErrorRethrow(what, e) == e

\* throw new Error(`${what}: ${e.message}`)
WrapError(what, e) == [name |-> "Error", message |-> <<what, e.message>>]

\* The response of the outer catch
CatchResponse(error) ==
    IF error.name \in {"SequelizeValidationError", "SequelizeUniqueConstraintError"}
    THEN [status |-> 400,
          body |-> [success |-> FALSE, message |-> error.message, errors |-> <<>>]]
    ELSE [status |-> 500,
          body |-> IF nodeEnv = "development"
                   THEN [success |-> FALSE, message |-> "Server error generating report",
                         error |-> error.message]
                   ELSE [success |-> FALSE, message |-> "Server error generating report"]]

\* Success with the budget comparison left out of the data
SuccessWithoutComparison(total, byCategory, byMonth, comparison) ==
    [status |-> 200,
     body |-> [success |-> TRUE,
               data |-> [totalExpenses      |-> total,
                         expensesByCategory |-> byCategory,
                         expensesByMonth    |-> byMonth]]]

\* res.json({ success: true, data: {...} })
Success(total, byCategory, byMonth, comparison) ==
    [status |-> 200,
     body |-> [success |-> TRUE,
               data |-> [totalExpenses      |-> total,
                         expensesByCategory |-> byCategory,
                         expensesByMonth    |-> byMonth,
                         budgetComparison   |-> comparison]]]

start == ParseDate(startDate).v

end == ParseDate(endDate).v

Locals == <<expenses, budgets>>

Derived == <<totalExpenses, categoryTotals, expensesByCategory, monthTotals,
             expensesByMonth, budgetComparison>>

Request == <<nodeEnv, startDate, endDate>>

Fetches == <<expenseFetches, budgetFetches>>

Store == <<expenseStore, budgetStore>>

\* What lies outside the handler's own variables
World == <<user, Store, storeStates, writes>>

\* The tables left out: where the fetches may return any rows, the store is
\* not looked at and stays empty.
AbstractStore ==
    /\ user = 1
    /\ expenseStore = {}
    /\ budgetStore = {}
    /\ storeStates = {<<{}, {}>>}
    /\ writes = 0

NewRequest ==
    /\ pc = "Validating"
    /\ expenses = <<>>
    /\ budgets = <<>>
    /\ expenseFetches = 0
    /\ budgetFetches = 0
    /\ err = NoError
    /\ totalExpenses = 0
    /\ categoryTotals = <<>>
    /\ expensesByCategory = <<>>
    /\ monthTotals = <<>>
    /\ expensesByMonth = <<>>
    /\ budgetComparison = <<>>
    /\ responses = <<>>

Init ==
    /\ nodeEnv \in NodeEnvs
    /\ startDate \in QueryDates
    /\ endDate \in QueryDates
    /\ NewRequest
    /\ AbstractStore

\* RejectRange with the return missing: the handler responds and goes on
RejectRangeNoReturn ==
    /\ pc = "Validating"
    /\ ValidateRange(startDate, endDate) # "ok"
    /\ responses' = Append(responses,
                           BadRequest(ValidationMessage(ValidateRange(startDate, endDate))))
    /\ pc' = "FetchingExpenses"
    /\ UNCHANGED <<World, Request, Locals, Fetches, err, Derived>>

\* One of the three early returns of the validation
RejectRange ==
    /\ pc = "Validating"
    /\ ValidateRange(startDate, endDate) # "ok"
    /\ responses' = Append(responses,
                           BadRequest(ValidationMessage(ValidateRange(startDate, endDate))))
    /\ pc' = "Failed"
    /\ UNCHANGED <<World, Request, Locals, Fetches, err, Derived>>

AcceptRange ==
    /\ pc = "Validating"
    /\ ValidateRange(startDate, endDate) = "ok"
    /\ pc' = "FetchingExpenses"
    /\ UNCHANGED <<World, Request, Locals, Fetches, err, Derived, responses>>

\* throw to the outer catch
Throw(error) ==
    /\ err' = error
    /\ responses' = Append(responses, CatchResponse(error))
    /\ pc' = "Failed"

\* FetchExpensesOk going on to the aggregation without the fetch of the
\* budgets
FetchExpensesOkSkipBudgets ==
    /\ pc = "FetchingExpenses"
    /\ expenseFetches' = expenseFetches + 1
    /\ \E rows \in SeqsUpTo(SampleExpenses, MaxRows) : expenses' = rows
    /\ pc' = "Aggregating"
    /\ UNCHANGED <<World, Request, budgets, budgetFetches, err, Derived, responses>>

FetchExpensesOk ==
    /\ pc = "FetchingExpenses"
    /\ expenseFetches' = expenseFetches + 1
    /\ \E rows \in SeqsUpTo(SampleExpenses, MaxRows) : expenses' = rows
    /\ pc' = "FetchingBudgets"
    /\ UNCHANGED <<World, Request, budgets, budgetFetches, err, Derived, responses>>

\* FetchExpensesFail keeping the error and going on with no expenses
FetchExpensesFailContinue ==
    /\ pc = "FetchingExpenses"
    /\ expenseFetches' = expenseFetches + 1
    /\ \E expenseErr \in StoreErrors :
          err' = WrapError("Failed to fetch expenses", expenseErr)
    /\ pc' = "FetchingBudgets"
    /\ UNCHANGED <<World, Request, Locals, budgetFetches, Derived, responses>>

FetchExpensesFail ==
    /\ pc = "FetchingExpenses"
    /\ expenseFetches' = expenseFetches + 1
    /\ \E expenseErr \in StoreErrors : Throw(WrapError("Failed to fetch expenses", expenseErr))
    /\ UNCHANGED <<World, Request, Locals, budgetFetches, Derived>>

FetchBudgetsOk ==
    /\ pc = "FetchingBudgets"
    /\ budgetFetches' = budgetFetches + 1
    /\ \E rows \in SeqsUpTo(SampleBudgets, MaxRows) : budgets' = rows
    /\ pc' = "Aggregating"
    /\ UNCHANGED <<World, Request, expenses, expenseFetches, err, Derived, responses>>

FetchBudgetsFail ==
    /\ pc = "FetchingBudgets"
    /\ budgetFetches' = budgetFetches + 1
    /\ \E budgetErr \in StoreErrors : Throw(WrapError("Failed to fetch budgets", budgetErr))
    /\ UNCHANGED <<World, Request, Locals, expenseFetches, Derived>>

\* Aggregate without the guards on a record's amount: a record whose amount
\* is no number makes the handler throw
AggregateThrows ==
    /\ pc = "Aggregating"
    /\ IF \E i \in DOMAIN expenses : isNaN(ParseAmount(expenses[i].amount))
       THEN /\ Throw([name |-> "TypeError", message |-> "amount"])
            /\ UNCHANGED <<World, Request, Locals, Fetches, Derived>>
       ELSE /\ totalExpenses' = TotalExpenses(expenses)
            /\ categoryTotals' = CategoryTotals(expenses, <<>>)
            /\ expensesByCategory' = ByCategory(categoryTotals')
            /\ monthTotals' = MonthTotals(expenses, <<>>)
            /\ expensesByMonth' = ByMonth(monthTotals')
            /\ pc' = "Comparing"
            /\ UNCHANGED <<World, Request, Locals, Fetches, err, budgetComparison, responses>>

\* totalExpenses, expensesByCategory and expensesByMonth
Aggregate ==
    /\ pc = "Aggregating"
    /\ totalExpenses' = TotalExpenses(expenses)
    /\ categoryTotals' = CategoryTotals(expenses, <<>>)
    /\ expensesByCategory' = ByCategory(categoryTotals')
    /\ monthTotals' = MonthTotals(expenses, <<>>)
    /\ expensesByMonth' = ByMonth(monthTotals')
    /\ pc' = "Comparing"
    /\ UNCHANGED <<World, Request, Locals, Fetches, err, budgetComparison, responses>>

\* budgetComparison and the response
Compare ==
    /\ pc = "Comparing"
    /\ budgetComparison' = BudgetComparison(budgets, <<>>, categoryTotals, start, end)
    /\ responses' = Append(responses,
                           Success(totalExpenses, expensesByCategory, expensesByMonth,
                                   budgetComparison'))
    /\ pc' = "Done"
    /\ UNCHANGED <<World, Request, Locals, Fetches, err, totalExpenses, categoryTotals,
                   expensesByCategory, monthTotals, expensesByMonth>>

Next ==
    \/ RejectRange
    \/ AcceptRange
    \/ FetchExpensesOk
    \/ FetchExpensesFail
    \/ FetchBudgetsOk
    \/ FetchBudgetsFail
    \/ Aggregate
    \/ Compare

Spec == Init /\ [][Next]_vars

\* The state of a request whose range was accepted and whose two fetches have
\* returned the given rows.
Fetched(expenseRows, budgetRows) ==
    /\ nodeEnv = "production"
    /\ startDate = Jan5
    /\ endDate = Feb10
    /\ pc = "Aggregating"
    /\ expenses = expenseRows
    /\ budgets = budgetRows
    /\ expenseFetches = 1
    /\ budgetFetches = 1
    /\ err = NoError
    /\ totalExpenses = 0
    /\ categoryTotals = <<>>
    /\ expensesByCategory = <<>>
    /\ monthTotals = <<>>
    /\ expensesByMonth = <<>>
    /\ budgetComparison = <<>>
    /\ responses = <<>>
    /\ AbstractStore

\* The aggregation and the comparison, applied to every list of fetched
\* expenses.
AggInit ==
    \E expenseRows \in SeqsUpTo(ExpenseRows, MaxRows) :
        \E budgetRows \in SeqsUpTo({BudgetRow(Amount(100), "other", "monthly")}, 1) :
            Fetched(expenseRows, budgetRows)

AggNext == Aggregate \/ Compare

AggSpec == AggInit /\ [][AggNext]_vars

\* The request from the return of the second fetch on.  Between two awaits the
\* handler runs to completion: the aggregation and the comparison are carried
\* out.
LiveExpenses ==
    { ExpenseRow(Amount(5), "Food", Jan5),
      ExpenseRow(NotANumber, "Food", Jan5),
      ExpenseRow(NoAmount, "", Garbage) }

LiveInit ==
    \E expenseRows \in SeqsUpTo(LiveExpenses, MaxRows) :
        \E budgetRows \in SeqsUpTo(SampleBudgets, 1) :
            Fetched(expenseRows, budgetRows)

LiveSpec == LiveInit /\ [][AggNext]_vars /\ WF_vars(Aggregate) /\ WF_vars(Compare)

-----------------------------------------------------------------------------
(* Properties of the validation and of the request's course *)

Present(x) == x.kind \notin {"empty", "absent"}

Parseable(x) == Present(x) /\ ~isNaN(ParseDate(x))

\* The instant a is earlier than the instant b, for two parseable texts.
Before(a, b) ==
    \/ a.y < b.y
    \/ a.y = b.y /\ a.m < b.m
    \/ a.y = b.y /\ a.m = b.m /\ a.d < b.d
    \/ a.y = b.y /\ a.m = b.m /\ a.d = b.d /\ a.h < b.h

RejectedWith(message) ==
    \E i \in DOMAIN responses : responses[i] = BadRequest(message)

InvalidInput == RejectedWith("Please provide startDate and endDate")

InvalidFormat == RejectedWith("Invalid date format")

InvalidRange == RejectedWith("End date cannot be before start date")

Validated == pc # "Validating"

\* C1: when startDate and endDate both parse, the request is rejected with
\* InvalidRange (400) exactly when end is before start; with start equal to
\* end it is accepted and goes on to the fetch of the expenses.
C1_RangeRejectedIffEndBeforeStart ==
    (Validated /\ Parseable(startDate) /\ Parseable(endDate)) =>
        /\ InvalidRange <=> Before(endDate, startDate)
        /\ startDate = endDate =>
              /\ responses = <<>> \/ expenseFetches = 1
              /\ pc = "FetchingExpenses" \/ expenseFetches = 1

C1_Witness ==
    /\ pc = "Failed"
    /\ Parseable(startDate) /\ Parseable(endDate)
    /\ Before(endDate, startDate)
    /\ responses = <<BadRequest("End date cannot be before start date")>>

\* C2: the validator decides in a fixed order: a missing startDate or endDate
\* gives InvalidInput; otherwise a text that is no date gives InvalidFormat;
\* the range check is applied only to two present, parseable dates.
C2_ValidationOrder ==
    Validated =>
        /\ (~Present(startDate) \/ ~Present(endDate)) =>
              responses = <<BadRequest("Please provide startDate and endDate")>>
        /\ (Present(startDate) /\ Present(endDate)
              /\ (~Parseable(startDate) \/ ~Parseable(endDate))) =>
              responses = <<BadRequest("Invalid date format")>>
        /\ InvalidRange => (Parseable(startDate) /\ Parseable(endDate))

C2_Witness ==
    /\ pc = "Failed"
    /\ ~Present(startDate)
    /\ Present(endDate) /\ ~Parseable(endDate)
    /\ responses = <<BadRequest("Please provide startDate and endDate")>>

FailsValidation ==
    \/ ~Present(startDate) \/ ~Present(endDate)
    \/ ~Parseable(startDate) \/ ~Parseable(endDate)
    \/ Before(endDate, startDate)

\* C3: a request that fails validation never reads the Record Store: neither
\* Expense.findAll nor Budget.findAll is called.
C3_NoFetchAfterFailedValidation ==
    FailsValidation =>
        /\ expenseFetches = 0 /\ budgetFetches = 0
        /\ expenses = <<>> /\ budgets = <<>>

C3_Witness ==
    /\ FailsValidation
    /\ pc = "Failed"
    /\ Len(responses) = 1 /\ responses[1].status = 400
    /\ expenseFetches = 0 /\ budgetFetches = 0

FetchFailed == err # NoError

\* C4: when the fetch of the expenses or of the budgets fails, whatever the
\* store's error, the request ends Failed with a 500 response, and a request
\* calls each findAll at most once.
C4_FetchFailureIs500 ==
    /\ FetchFailed =>
          /\ pc = "Failed"
          /\ Len(responses) = 1
          /\ responses[1].status = 500
          /\ ~responses[1].body.success
    /\ expenseFetches <= 1 /\ budgetFetches <= 1

C4_Witness ==
    /\ FetchFailed
    /\ expenseFetches = 1 /\ budgetFetches = 1
    /\ pc = "Failed"
    /\ responses[1].status = 500

ReportFields ==
    {"totalExpenses", "expensesByCategory", "expensesByMonth", "budgetComparison"}

SuccessResponse(r) ==
    /\ r.body.success
    /\ "data" \in DOMAIN r.body
    /\ DOMAIN r.body.data = ReportFields

FailureResponse(r) ==
    /\ ~r.body.success
    /\ "data" \notin DOMAIN r.body
    /\ DOMAIN r.body \cap ReportFields = {}

\* C5: a request is answered once: a finished request has sent exactly one
\* response and an unfinished one none; a response is a success with the four
\* report fields or a failure with none of them.
C5_OneCompleteResponse ==
    /\ Len(responses) <= 1
    /\ pc \in {"Done", "Failed"} <=> Len(responses) = 1
    /\ \A i \in DOMAIN responses :
          SuccessResponse(responses[i]) \/ FailureResponse(responses[i])
    /\ pc = "Done" => SuccessResponse(responses[1])
    /\ pc = "Failed" => FailureResponse(responses[1])

C5_Witness ==
    /\ pc = "Done"
    /\ Len(responses) = 1
    /\ SuccessResponse(responses[1])
    /\ responses[1].body.data.budgetComparison # <<>>

Defective(expense) ==
    \/ isNaN(ParseAmount(expense.amount))
    \/ expense.amount.kind = "empty"
    \/ isNaN(ParseDate(expense.date))
    \/ expense.category = ""

\* C6: once both fetches have succeeded the request reaches Done with a
\* success report, whatever the fetched records hold; no step from
\* Aggregating or Comparing leads to Failed.
C6_AggregationAlwaysCompletes ==
    /\ (pc = "Aggregating") ~> (pc = "Done" /\ SuccessResponse(responses[1]))
    /\ [][(pc \in {"Aggregating", "Comparing"}) => ~(pc' = "Failed")]_vars

C6_Witness ==
    /\ pc = "Done"
    /\ SuccessResponse(responses[1])
    /\ \E i \in DOMAIN expenses : isNaN(ParseAmount(expenses[i].amount))
    /\ \E i \in DOMAIN budgets : budgets[i].period = "biannual"

-----------------------------------------------------------------------------
(* Properties of the aggregation *)

Aggregated == pc \in {"Comparing", "Done"}

Remove(rows, i) == SubSeq(rows, 1, i - 1) \o SubSeq(rows, i + 1, Len(rows))

\* What a record brings by itself: its amount when that is a number.
OwnAmount(expense) == IF expense.amount.kind = "num" THEN expense.amount.v ELSE 0

OwnCategoryAmount(expense, category) ==
    IF (IF expense.category = "" THEN "other" ELSE expense.category) = category
    THEN OwnAmount(expense)
    ELSE 0

OwnMonthAmount(expense, month) ==
    IF expense.date.kind = "iso" /\ <<expense.date.y, expense.date.m>> = month
    THEN OwnAmount(expense)
    ELSE 0

CategoryKeys == {"Food", "other"}

MonthKeys == {<<2024, 1>>, <<2024, 2>>}

RECURSIVE SumAmounts(_)
SumAmounts(entries) ==
    IF entries = <<>> THEN 0 ELSE Head(entries).amount + SumAmounts(Tail(entries))

NoDefects(rows) == \A i \in DOMAIN rows : ~Defective(rows[i])

\* C7: a defective expense record changes only its own contribution: what the
\* other records bring to totalExpenses, to each category total and to each
\* month total is what the aggregation gives without that record.
C7_DefectIsolated ==
    Aggregated =>
        \A i \in DOMAIN expenses :
            Defective(expenses[i]) =>
                LET d    == expenses[i]
                    rest == Remove(expenses, i)
                IN  /\ totalExpenses - OwnAmount(d) = TotalExpenses(rest)
                    /\ \A c \in CategoryKeys :
                          Lookup(categoryTotals, c) - OwnCategoryAmount(d, c)
                              = Lookup(CategoryTotals(rest, <<>>), c)
                    /\ \A m \in MonthKeys :
                          Lookup(monthTotals, m) - OwnMonthAmount(d, m)
                              = Lookup(MonthTotals(rest, <<>>), m)

C7_Witness ==
    /\ pc = "Done"
    /\ Len(expenses) = 2
    /\ expenses[1] = ExpenseRow(Amount(5), "Food", Jan5)
    /\ expenses[2] = ExpenseRow(NotANumber, "Food", Jan5)
    /\ totalExpenses = 5
    /\ expensesByCategory = <<[category |-> "Food", amount |-> 5]>>

\* C8: for fetched expenses without record defects, the amounts of
\* expensesByCategory add up to totalExpenses.
C8_CategorySumIsTotal ==
    (Aggregated /\ NoDefects(expenses)) =>
        SumAmounts(expensesByCategory) = totalExpenses

C8_Witness ==
    /\ pc = "Done"
    /\ NoDefects(expenses)
    /\ Len(expensesByCategory) = 2
    /\ totalExpenses = 25
    /\ SumAmounts(responses[1].body.data.expensesByCategory) = 25

\* C9: for fetched expenses without record defects, the amounts of
\* expensesByMonth add up to totalExpenses.
C9_MonthSumIsTotal ==
    (Aggregated /\ NoDefects(expenses)) =>
        SumAmounts(expensesByMonth) = totalExpenses

C9_Witness ==
    /\ pc = "Done"
    /\ NoDefects(expenses)
    /\ Len(expensesByMonth) = 2
    /\ totalExpenses = 25
    /\ SumAmounts(responses[1].body.data.expensesByMonth) = 25

\* The aggregation's results are those it gives without record i.
Contributes(i) ==
    LET rest == Remove(expenses, i)
    IN  \/ totalExpenses # TotalExpenses(rest)
        \/ categoryTotals # CategoryTotals(rest, <<>>)
        \/ monthTotals # MonthTotals(rest, <<>>)

\* parseFloat of the amount itself is NaN
Unparseable(a) == a.kind \in {"text", "empty"}

C11_UnparseableDateSkipped ==
    /\ Aggregated =>
          \A i \in DOMAIN expenses :
              ~Parseable(expenses[i].date) => ~Contributes(i)
    /\ pc = "Done" => SuccessResponse(responses[1])

\* C11, amended: an expense record whose date cannot be parsed is skipped by
\* the month totals only: it contributes to no entry of expensesByMonth, while
\* its amount, when that is a number, is counted in totalExpenses and in its
\* category's total; the report succeeds.
C11_UnparseableDateSkippedByMonthOnly ==
    /\ Aggregated =>
          \A i \in DOMAIN expenses :
              ~Parseable(expenses[i].date) =>
                  LET d    == expenses[i]
                      rest == Remove(expenses, i)
                  IN  /\ monthTotals = MonthTotals(rest, <<>>)
                      /\ totalExpenses = TotalExpenses(rest) + OwnAmount(d)
                      /\ \A c \in CategoryKeys :
                            Lookup(categoryTotals, c)
                                = Lookup(CategoryTotals(rest, <<>>), c)
                                      + OwnCategoryAmount(d, c)
    /\ pc = "Done" => SuccessResponse(responses[1])

C11_Witness ==
    /\ pc = "Done"
    /\ SuccessResponse(responses[1])
    /\ Len(expenses) = 2
    /\ expenses[1] = ExpenseRow(Amount(5), "Food", Garbage)
    /\ expenses[2] = ExpenseRow(Amount(20), "Food", Jan5)
    /\ totalExpenses = 25
    /\ expensesByCategory = <<[category |-> "Food", amount |-> 25]>>
    /\ expensesByMonth = <<[month |-> <<2024, 1>>, amount |-> 20]>>

EmptyReport(r) ==
    /\ SuccessResponse(r)
    /\ r.body.data.totalExpenses = 0
    /\ r.body.data.expensesByCategory = <<>>
    /\ r.body.data.expensesByMonth = <<>>

-----------------------------------------------------------------------------
(* The comparison over reporting windows and budget periods *)

Nov20 == Iso(2023, 11, 20, 0)

Jan12 == Iso(2024, 1, 12, 0)

Jan12Noon == Iso(2024, 1, 12, 12)

Jan31 == Iso(2024, 1, 31, 0)

Mar1 == Iso(2024, 3, 1, 0)

Mar1Noon == Iso(2024, 3, 1, 12)

NextJan4 == Iso(2025, 1, 4, 0)

NextJan5 == Iso(2025, 1, 5, 0)

WindowDates ==
    {Nov20, Jan5, Jan5Noon, Jan12, Jan12Noon, Jan31, Feb10, Mar1, Mar1Noon,
     NextJan4, NextJan5}

\* The windows the validation accepts
Windows ==
    {w \in WindowDates \X WindowDates : ValidateRange(w[1], w[2]) = "ok"}

Periods == {"weekly", "monthly", "quarterly", "yearly", "biannual", ""}

BudgetAmounts == {Amount(100), NotANumber, NoAmount}

BudgetRows ==
    {BudgetRow(a, c, p) : a \in BudgetAmounts, c \in Categories, p \in Periods}

WindowExpenses ==
    { <<>>,
      <<ExpenseRow(Amount(5), "Food", Jan5), ExpenseRow(Amount(20), "", Feb10)>>,
      <<ExpenseRow(Amount(5), "food", Jan5), ExpenseRow(Amount(20), "Food", Jan5),
        ExpenseRow(NotANumber, "Food", Jan5)>>,
      <<ExpenseRow(NoAmount, "Food", Feb10), ExpenseRow(Amount(5), "Food", Garbage),
        ExpenseRow(Amount(20), "other", Jan5)>> }

\* The state of a request for the window sd..ed whose two fetches have
\* returned the given rows.
FetchedWindow(sd, ed, expenseRows, budgetRows) ==
    /\ nodeEnv = "production"
    /\ startDate = sd
    /\ endDate = ed
    /\ pc = "Aggregating"
    /\ expenses = expenseRows
    /\ budgets = budgetRows
    /\ expenseFetches = 1
    /\ budgetFetches = 1
    /\ err = NoError
    /\ totalExpenses = 0
    /\ categoryTotals = <<>>
    /\ expensesByCategory = <<>>
    /\ monthTotals = <<>>
    /\ expensesByMonth = <<>>
    /\ budgetComparison = <<>>
    /\ responses = <<>>
    /\ AbstractStore

\* The aggregation and the comparison, applied to every window and every
\* budget.
NormInit ==
    \E w \in Windows :
        \E expenseRows \in WindowExpenses :
            \E budget \in BudgetRows :
                FetchedWindow(w[1], w[2], expenseRows, <<budget>>)

NormSpec == NormInit /\ [][AggNext]_vars

-----------------------------------------------------------------------------
(* Properties of the period normalisation *)

\* The budgets that have a category, in fetch order.
WithCategory(rows) ==
    LET HasCategory(b) == b.category # ""
    IN  SelectSeq(rows, HasCategory)

\* The amount of a budget as a number, 0 when it is none.
BudgetAmountOf(budget) == IF budget.amount.kind = "num" THEN budget.amount.v ELSE 0

\* Calendar arithmetic on the texts of the window's two dates.
MonthIndex(x) == x.y * 12 + x.m

AtLeastOne(n) == IF n < 1 THEN 1 ELSE n

CeilDiv(a, b) == IF a % b = 0 THEN a \div b ELSE a \div b + 1

WindowMonths == AtLeastOne(MonthIndex(endDate) - MonthIndex(startDate) + 1)

IsLeap(y) == (y % 4 = 0 /\ y % 100 # 0) \/ y % 400 = 0

DaysBeforeMonth(y, m) ==
    <<0, 31, 59, 90, 120, 151, 181, 212, 243, 273, 304, 334>>[m]
        + (IF IsLeap(y) /\ m > 2 THEN 1 ELSE 0)

DayNumber(x) ==
    365 * x.y + (x.y - 1) \div 4 - (x.y - 1) \div 100 + (x.y - 1) \div 400
        + DaysBeforeMonth(x.y, x.m) + x.d

\* end - start in hours
WindowHours == (DayNumber(endDate) - DayNumber(startDate)) * 24 + endDate.h - startDate.h

\* ceil(end - start in days)
WindowDays == CeilDiv(WindowHours, 24)

\* The calendar days of the window, both ends counted.
InclusiveDays == DayNumber(endDate) - DayNumber(startDate) + 1

Compared == pc = "Done" /\ Len(budgetComparison) = Len(WithCategory(budgets))

\* The budget of entry i of budgetComparison
BudgetOfEntry(i) == WithCategory(budgets)[i]

\* C13: for a monthly budget, adjusted = amount x months, months being
\* (endYear*12 + endMonth) - (startYear*12 + startMonth) + 1, at least 1: a
\* window inside one calendar month gives amount, one over N calendar months
\* amount x N; for a quarterly budget, adjusted = amount x max(1, ceil(months/3)).
C13_MonthlyAndQuarterlyScale ==
    pc = "Done" =>
        /\ Compared
        /\ \A i \in DOMAIN budgetComparison :
              LET b == BudgetOfEntry(i)
              IN  /\ b.period \in {"monthly", ""} =>
                        /\ budgetComparison[i].budget = BudgetAmountOf(b) * WindowMonths
                        /\ MonthIndex(startDate) = MonthIndex(endDate) =>
                              budgetComparison[i].budget = BudgetAmountOf(b)
                  /\ b.period = "quarterly" =>
                        budgetComparison[i].budget
                            = BudgetAmountOf(b) * AtLeastOne(CeilDiv(WindowMonths, 3))

C13_Witness ==
    /\ pc = "Done"
    /\ startDate = Jan5 /\ endDate = Mar1
    /\ budgets = <<BudgetRow(Amount(100), "Food", "monthly")>>
    /\ budgetComparison[1].budget = 300

\* C14: for a weekly budget, adjusted = amount x weeks, with
\* days = ceil(end - start in days) and weeks = ceil(days / 7), at least 1:
\* the factor is never below 1, also when start equals end.
C14_WeeklyScale ==
    pc = "Done" =>
        /\ Compared
        /\ \A i \in DOMAIN budgetComparison :
              LET b == BudgetOfEntry(i)
              IN  b.period = "weekly" =>
                      /\ budgetComparison[i].budget
                            = BudgetAmountOf(b) * AtLeastOne(CeilDiv(WindowDays, 7))
                      /\ budgetComparison[i].budget >= BudgetAmountOf(b)

C14_Witness ==
    /\ pc = "Done"
    /\ startDate = Jan5 /\ endDate = Jan5
    /\ budgets = <<BudgetRow(Amount(100), "Food", "weekly")>>
    /\ budgetComparison[1].budget = 100

\* The end's (month, day) is on or after the start's.
EndOnOrAfterStartInYear ==
    \/ endDate.m > startDate.m
    \/ endDate.m = startDate.m /\ endDate.d >= startDate.d

WindowYears ==
    AtLeastOne(endDate.y - startDate.y + (IF EndOnOrAfterStartInYear THEN 1 ELSE 0))

\* C15: for a yearly budget, adjusted = amount x years, years being
\* endYear - startYear, plus 1 when the end's (month, day) is on or after the
\* start's, at least 1.
C15_YearlyScale ==
    pc = "Done" =>
        /\ Compared
        /\ \A i \in DOMAIN budgetComparison :
              LET b == BudgetOfEntry(i)
              IN  b.period = "yearly" =>
                      budgetComparison[i].budget = BudgetAmountOf(b) * WindowYears

C15_Witness ==
    /\ pc = "Done"
    /\ startDate = Nov20 /\ endDate = NextJan5
    /\ budgets = <<BudgetRow(Amount(100), "other", "yearly")>>
    /\ budgetComparison[1].budget = 200

\* The period count an entry was scaled by, for a budget of a positive amount.
CountOfEntry(i) == budgetComparison[i].budget \div BudgetAmountOf(BudgetOfEntry(i))

\* count periods of k months each, starting on the start's date, end after
\* the end's date.
MonthsCover(count, k) ==
    \/ MonthIndex(startDate) + count * k > MonthIndex(endDate)
    \/ /\ MonthIndex(startDate) + count * k = MonthIndex(endDate)
       /\ startDate.d > endDate.d

\* count periods starting on the start's date contain every calendar day of
\* the inclusive window.
CoversInclusiveWindow(period, count) ==
    CASE period = "weekly"    -> count * 7 >= InclusiveDays
      [] period = "monthly"   -> MonthsCover(count, 1)
      [] period = "quarterly" -> MonthsCover(count, 3)
      [] period = "yearly"    -> MonthsCover(count, 12)

\* C16: for every recognised period and every valid window, the period count
\* covers the inclusive window [start, end], partial periods counting as
\* whole: count x period length is never shorter than the window (for a
\* weekly budget over D calendar days counted inclusively, weeks >= ceil(D / 7)).
C16_CountCoversInclusiveWindow ==
    pc = "Done" =>
        \A i \in DOMAIN budgetComparison :
            LET b == BudgetOfEntry(i)
            IN  (b.period \in {"weekly", "monthly", "quarterly", "yearly"}
                    /\ BudgetAmountOf(b) > 0) =>
                    /\ budgetComparison[i].budget = CountOfEntry(i) * BudgetAmountOf(b)
                    /\ CoversInclusiveWindow(b.period, CountOfEntry(i))

C18_OneEntryPerBudgetWithCategory ==
    pc = "Done" =>
        /\ Len(budgetComparison) = Len(WithCategory(budgets))
        /\ \A i \in DOMAIN budgetComparison :
              /\ budgetComparison[i].category = WithCategory(budgets)[i].category
              /\ budgetComparison[i].budget
                    = AdjustedBudgetAmount(WithCategory(budgets)[i], start, end)
        /\ SuccessResponse(responses[1])
        /\ responses[1].body.data.budgetComparison = budgetComparison

C18_Witness ==
    /\ pc = "Done"
    /\ Len(budgets) = 2
    /\ budgets[1].category = "Food" /\ budgets[2].category = "Food"
    /\ budgets[1] # budgets[2]
    /\ Len(budgetComparison) = 2

RECURSIVE SpentIn(_, _)
\* The sum of the amounts of the records of a category
SpentIn(rows, category) ==
    IF rows = <<>> THEN 0
    ELSE OwnCategoryAmount(Head(rows), category) + SpentIn(Tail(rows), category)

\* C19: in every entry of budgetComparison, actual is the sum of the valid
\* amounts of the fetched expenses whose category is exactly the budget's
\* (0 when there is none), and difference = budget - actual, budget being the
\* normalised amount.
C19_ActualIsCategorySum ==
    pc = "Done" =>
        /\ Compared
        /\ \A i \in DOMAIN budgetComparison :
              /\ budgetComparison[i].actual = SpentIn(expenses, BudgetOfEntry(i).category)
              /\ budgetComparison[i].difference
                    = budgetComparison[i].budget - budgetComparison[i].actual

C19_Witness ==
    /\ pc = "Done"
    /\ \E i \in DOMAIN expenses : expenses[i].category = "food"
    /\ budgets[1].category = "Food"
    /\ Len(budgetComparison) = 1
    /\ budgetComparison[1].actual = 20
    /\ budgetComparison[1].difference = budgetComparison[1].budget - 20

\* Two date texts naming the same calendar date
SameCalendarDate(a, b) == a.y = b.y /\ a.m = b.m /\ a.d = b.d

\* The requests whose start and end fall on the calendar dates of this one
SameDatesRequests ==
    {w \in WindowDates \X WindowDates :
        SameCalendarDate(w[1], startDate) /\ SameCalendarDate(w[2], endDate)}

\* The validator decides a request of the same calendar dates as it decided
\* this one.
SameDecision(w) == ValidateRange(w[1], w[2]) = ValidateRange(startDate, endDate)

\* Every budget is scaled for a request of the same calendar dates as it was
\* scaled for this one.
SameAdjusted(w) ==
    \A i \in DOMAIN budgetComparison :
        budgetComparison[i].budget
            = AdjustedBudgetAmount(BudgetOfEntry(i), ParseDate(w[1]).v, ParseDate(w[2]).v)

\* C20: the validated range is truncated to date granularity: two requests
\* whose start and end fall on the same calendar dates but differ in time of
\* day get the same accept/reject decision from the validator and the same
\* adjusted amount for every budget.
C20_TimeOfDayIgnored ==
    pc = "Done" =>
        \A w \in SameDatesRequests :
            /\ SameDecision(w)
            /\ SameDecision(w) => SameAdjusted(w)

-----------------------------------------------------------------------------
(* Properties of the request's phases *)

\* The place of a position of the handler in the order Validating, Fetching,
\* Aggregating, Normalizing+Comparing, Done.
PhaseRank(p) ==
    CASE p = "Validating"       -> 1
      [] p = "FetchingExpenses" -> 2
      [] p = "FetchingBudgets"  -> 2
      [] p = "Aggregating"      -> 3
      [] p = "Comparing"        -> 4
      [] p = "Done"             -> 5

Terminal == pc \in {"Done", "Failed"}

\* A step stays in its phase, goes to the next one or fails.
PhaseStep ==
    \/ pc' = pc
    \/ pc' = "Failed"
    \/ pc' # "Failed" /\ PhaseRank(pc') = PhaseRank(pc) + 1
    \/ pc = "FetchingExpenses" /\ pc' = "FetchingBudgets"

\* C21: a request moves through the phases only in the order Validating,
\* Fetching, Aggregating, Normalizing+Comparing, Done: no phase is entered
\* before the previous one completed (the aggregation never starts before
\* both fetches returned), none is revisited, and Done and Failed are terminal.
C21_PhasesInOrder ==
    /\ [](pc \in {"Aggregating", "Comparing", "Done"} =>
            expenseFetches = 1 /\ budgetFetches = 1)
    /\ [][IF Terminal THEN UNCHANGED vars ELSE PhaseStep]_vars

C21_Witness ==
    /\ pc = "Done"
    /\ expenseFetches = 1 /\ budgetFetches = 1
    /\ Len(responses) = 1

\* The fetch of the expenses was rejected by the store.
ExpenseFetchFailed == FetchFailed /\ err.message[1] = "Failed to fetch expenses"

\* C28: within a request the fetch of the budgets is issued only after the
\* fetch of the expenses returned successfully; when the fetch of the
\* expenses fails, the budgets are never fetched.
C28_BudgetsFetchedAfterExpenses ==
    /\ [](ExpenseFetchFailed => budgetFetches = 0)
    /\ [](budgetFetches > 0 => expenseFetches = 1)
    /\ [][budgetFetches' # budgetFetches =>
            /\ pc = "FetchingBudgets"
            /\ expenseFetches = 1
            /\ ~FetchFailed]_vars

C28_Witness ==
    /\ ExpenseFetchFailed
    /\ pc = "Failed"
    /\ expenseFetches = 1
    /\ budgetFetches = 0

-----------------------------------------------------------------------------
(* Properties of the entries of the two lists *)

\* The YYYY-MM written in a record's date
OwnMonth(expense) == <<expense.date.y, expense.date.m>>

\* The months of the records with a valid date and an amount that is a number
MonthsOfValid(rows) ==
    {OwnMonth(rows[i]) :
        i \in {j \in DOMAIN rows :
                  Parseable(rows[j].date) /\ rows[j].amount.kind = "num"}}

\* The months of the records with a valid date and an amount that is a
\* number or is missing
MonthsOfCounted(rows) ==
    {OwnMonth(rows[i]) :
        i \in {j \in DOMAIN rows :
                  Parseable(rows[j].date) /\ rows[j].amount.kind # "text"}}

RECURSIVE SpentInMonth(_, _)
\* The sum of the amounts of the records of a month
SpentInMonth(rows, month) ==
    IF rows = <<>> THEN 0
    ELSE OwnMonthAmount(Head(rows), month) + SpentInMonth(Tail(rows), month)

\* The list has one entry for each month of the set, holding what was spent
\* in it.
OneEntryPerMonth(list, months) ==
    /\ {list[k].month : k \in DOMAIN list} = months
    /\ Len(list) = Cardinality(months)
    /\ \A k \in DOMAIN list : list[k].amount = SpentInMonth(expenses, list[k].month)

OwnCategory(expense) == IF expense.category = "" THEN "other" ELSE expense.category

\* The categories of the fetched records
CategoriesObserved(rows) == {OwnCategory(rows[i]) : i \in DOMAIN rows}

\* The categories of the records whose amount is a number or is missing
CategoriesCounted(rows) ==
    {OwnCategory(rows[i]) : i \in {j \in DOMAIN rows : rows[j].amount.kind # "text"}}

\* The list has one entry for each category of the set.
OneEntryPerCategory(list, categories) ==
    /\ {list[k].category : k \in DOMAIN list} = categories
    /\ Len(list) = Cardinality(categories)

RECURSIVE SpentUnder(_, _)
\* The sum of the numeric amounts of the records whose category is one of the
\* given texts
SpentUnder(rows, categories) ==
    IF rows = <<>> THEN 0
    ELSE (IF Head(rows).category \in categories THEN OwnAmount(Head(rows)) ELSE 0)
            + SpentUnder(Tail(rows), categories)

\* C25: an expense record with a missing or empty category is aggregated
\* under the literal category "other": its amount is added to the "other"
\* entry of expensesByCategory and counted as actual spend for any budget
\* whose category is "other".
C25_MissingCategoryIsOther ==
    pc = "Done" =>
        LET list == responses[1].body.data.expensesByCategory
            comparison == responses[1].body.data.budgetComparison
        IN  /\ \A k \in DOMAIN list : list[k].category # ""
            /\ (\E i \in DOMAIN expenses :
                    expenses[i].category = "" /\ expenses[i].amount.kind # "text") =>
                  \E k \in DOMAIN list :
                      /\ list[k].category = "other"
                      /\ list[k].amount = SpentUnder(expenses, {"", "other"})
            /\ \A k \in DOMAIN comparison :
                  comparison[k].category = "other" =>
                      comparison[k].actual = SpentUnder(expenses, {"", "other"})

C25_Witness ==
    /\ pc = "Done"
    /\ expenses = <<ExpenseRow(Amount(5), "", Jan5), ExpenseRow(Amount(20), "other", Feb10)>>
    /\ expensesByCategory = <<[category |-> "other", amount |-> 25]>>
    /\ Len(budgetComparison) = 1
    /\ budgetComparison[1].category = "other"
    /\ budgetComparison[1].actual = 25

RECURSIVE SpentUndated(_)
\* The sum of the numeric amounts of the records whose date does not parse
SpentUndated(rows) ==
    IF rows = <<>> THEN 0
    ELSE (IF Parseable(Head(rows).date) THEN 0 ELSE OwnAmount(Head(rows)))
            + SpentUndated(Tail(rows))

\* C29: for every fetched expense set, records with unparseable amounts or
\* dates included, the amounts of expensesByCategory add up to totalExpenses,
\* and those of expensesByMonth to at most totalExpenses, the shortfall being
\* exactly the valid amounts of the records whose date is unparseable.
C29_SumsAgainstTotal ==
    Aggregated =>
        /\ SumAmounts(expensesByCategory) = totalExpenses
        /\ SumAmounts(expensesByMonth) <= totalExpenses
        /\ totalExpenses - SumAmounts(expensesByMonth) = SpentUndated(expenses)

C29_Witness ==
    /\ pc = "Done"
    /\ expenses = <<ExpenseRow(Amount(5), "Food", Garbage), ExpenseRow(Amount(20), "", Jan5)>>
    /\ responses[1].body.data.totalExpenses = 25
    /\ SumAmounts(responses[1].body.data.expensesByCategory) = 25
    /\ SumAmounts(responses[1].body.data.expensesByMonth) = 20

-----------------------------------------------------------------------------
(* Monotonicity of the period normalisation *)

\* The window w contains this request's window.
Widens(w) == ~Before(startDate, w[1]) /\ ~Before(w[2], endDate)

\* C30: the period normalisation is monotone in the window: for a budget of a
\* non-negative amount and a recognised period, adjusted is at least the raw
\* amount, and a later end or an earlier start, the range staying valid,
\* never gives a smaller adjusted amount.
C30_AdjustedMonotoneInWindow ==
    pc = "Done" =>
        /\ Compared
        /\ \A i \in DOMAIN budgetComparison :
              LET b == BudgetOfEntry(i)
              IN  (b.period \in {"weekly", "monthly", "quarterly", "yearly"}
                      /\ BudgetAmountOf(b) >= 0) =>
                      /\ budgetComparison[i].budget >= BudgetAmountOf(b)
                      /\ \A w \in Windows :
                            Widens(w) =>
                                AdjustedBudgetAmount(b, ParseDate(w[1]).v, ParseDate(w[2]).v)
                                    >= budgetComparison[i].budget

C30_Witness ==
    /\ pc = "Done"
    /\ startDate = Jan5 /\ endDate = Jan12
    /\ budgets = <<BudgetRow(Amount(100), "Food", "weekly")>>
    /\ budgetComparison[1].budget = 100
    /\ Widens(<<Nov20, Jan31>>)
    /\ AdjustedBudgetAmount(budgets[1], ParseDate(Nov20).v, ParseDate(Jan31).v) = 1100

-----------------------------------------------------------------------------
(* The handler over the two tables, with other handlers writing to them *)

Users == {1, 2}

StoredExpense(id, owner, a, c, d) ==
    [id |-> id, user_id |-> owner, amount |-> a, category |-> c, date |-> d]

StoredBudget(id, owner, a, c, p) ==
    [id |-> id, user_id |-> owner, amount |-> a, category |-> c, period |-> p]

\* The rows the expenses table may hold
StoredExpenses ==
    { StoredExpense(1, 1, Amount(5), "Food", Jan5),
      StoredExpense(2, 1, Amount(20), "other", Feb10),
      StoredExpense(3, 2, Amount(20), "Food", Jan5) }

\* The rows the budgets table may hold
StoredBudgets ==
    { StoredBudget(1, 1, Amount(100), "Food", "monthly"),
      StoredBudget(2, 2, Amount(100), "Food", "weekly") }

RequestWindows == {<<Jan5, Feb10>>, <<Jan5, Jan12>>, <<Feb10, Jan5>>}

RECURSIVE ById(_)
\* The rows of a set in the order of their ids
ById(rows) ==
    IF rows = {} THEN <<>>
    ELSE LET first == CHOOSE r \in rows : \A q \in rows : r.id <= q.id
         IN  <<first>> \o ById(rows \ {first})

\* FindExpenses without the test of user_id
FindExpensesOfAllUsers(table, owner, from, to) ==
    LET found == {r \in table : /\ ParseDate(r.date).v >= from
                                /\ ParseDate(r.date).v <= to}
        rows  == ById(found)
    IN  [i \in DOMAIN rows |->
            ExpenseRow(rows[i].amount, rows[i].category, rows[i].date)]

\* Expense.findAll({ where: { user_id, date: { [Op.between]: [start, end] } },
\*                   attributes: [...] })
FindExpenses(table, owner, from, to) ==
    LET found == {r \in table : /\ r.user_id = owner
                                /\ ParseDate(r.date).v >= from
                                /\ ParseDate(r.date).v <= to}
        rows  == ById(found)
    IN  [i \in DOMAIN rows |->
            ExpenseRow(rows[i].amount, rows[i].category, rows[i].date)]

\* Budget.findAll({ where: { user_id }, attributes: [...] })
FindBudgets(table, owner) ==
    LET rows == ById({r \in table : r.user_id = owner})
    IN  [i \in DOMAIN rows |->
            BudgetRow(rows[i].amount, rows[i].category, rows[i].period)]

StoreInit ==
    /\ nodeEnv = "production"
    /\ user \in Users
    /\ \E w \in RequestWindows : startDate = w[1] /\ endDate = w[2]
    /\ expenseStore \in SUBSET StoredExpenses
    /\ budgetStore \in SUBSET StoredBudgets
    /\ storeStates = {<<expenseStore, budgetStore>>}
    /\ writes = 0
    /\ NewRequest

\* ReadExpenses deleting the rows it has read
ReadExpensesDestroying ==
    /\ pc = "FetchingExpenses"
    /\ expenseFetches' = expenseFetches + 1
    /\ expenses' = FindExpenses(expenseStore, user, start, end)
    /\ expenseStore' = {r \in expenseStore : r.user_id # user}
    /\ storeStates' = storeStates \cup {<<expenseStore', budgetStore>>}
    /\ pc' = "FetchingBudgets"
    /\ UNCHANGED <<user, budgetStore, writes, Request, budgets, budgetFetches, err,
                   Derived, responses>>

\* await Expense.findAll(..) returning the rows of the table
ReadExpenses ==
    /\ pc = "FetchingExpenses"
    /\ expenseFetches' = expenseFetches + 1
    /\ expenses' = FindExpenses(expenseStore, user, start, end)
    /\ pc' = "FetchingBudgets"
    /\ UNCHANGED <<World, Request, budgets, budgetFetches, err, Derived, responses>>

\* await Budget.findAll(..) returning the rows of the table
ReadBudgets ==
    /\ pc = "FetchingBudgets"
    /\ budgetFetches' = budgetFetches + 1
    /\ budgets' = FindBudgets(budgetStore, user)
    /\ pc' = "Aggregating"
    /\ UNCHANGED <<World, Request, expenses, expenseFetches, err, Derived, responses>>

\* The handler is suspended in one of its two awaits; the tables are read by
\* it nowhere else.
Awaiting == pc \in {"FetchingExpenses", "FetchingBudgets"}

\* A write of another handler, changing the two tables to e and b
Written(e, b) ==
    /\ Awaiting
    /\ writes < MaxWrites
    /\ writes' = writes + 1
    /\ expenseStore' = e
    /\ budgetStore' = b
    /\ storeStates' = storeStates \cup {<<e, b>>}
    /\ UNCHANGED <<pc, user, Request, Locals, Fetches, err, Derived, responses>>

\* POST /api/expenses: Expense.create
CreateExpense ==
    \E row \in StoredExpenses \ expenseStore :
        Written(expenseStore \cup {row}, budgetStore)

\* DELETE /api/expenses/:id: expense.destroy
DestroyExpense ==
    \E row \in expenseStore : Written(expenseStore \ {row}, budgetStore)

\* POST /api/budgets: Budget.create
CreateBudget ==
    \E row \in StoredBudgets \ budgetStore :
        Written(expenseStore, budgetStore \cup {row})

\* DELETE /api/budgets/:id: budget.destroy
DestroyBudget ==
    \E row \in budgetStore : Written(expenseStore, budgetStore \ {row})

\* The next GET /api/reports: the handler is called again, and its locals are
\* new.
NewInvocation ==
    /\ pc \in {"Done", "Failed"}
    /\ user' \in Users
    /\ \E w \in RequestWindows : startDate' = w[1] /\ endDate' = w[2]
    /\ pc' = "Validating"
    /\ expenses' = <<>>
    /\ budgets' = <<>>
    /\ expenseFetches' = 0
    /\ budgetFetches' = 0
    /\ err' = NoError
    /\ totalExpenses' = 0
    /\ categoryTotals' = <<>>
    /\ expensesByCategory' = <<>>
    /\ monthTotals' = <<>>
    /\ expensesByMonth' = <<>>
    /\ budgetComparison' = <<>>
    /\ responses' = <<>>
    /\ storeStates' = {<<expenseStore, budgetStore>>}
    /\ writes' = 0
    /\ UNCHANGED <<nodeEnv, Store>>

StoreNext ==
    \/ RejectRange
    \/ AcceptRange
    \/ ReadExpenses
    \/ FetchExpensesFail
    \/ ReadBudgets
    \/ FetchBudgetsFail
    \/ Aggregate
    \/ Compare
    \/ CreateExpense
    \/ DestroyExpense
    \/ CreateBudget
    \/ DestroyBudget
    \/ NewInvocation

StoreSpec == StoreInit /\ [][StoreNext]_vars

-----------------------------------------------------------------------------
(* Properties of the handler over the tables *)

\* C22: with expense and budget writes running concurrently with a report
\* request, the report is computed from one snapshot of the store: there is
\* a single store state during the request in which the user's in-window
\* expenses and the user's budgets are exactly the two record sets the report
\* was computed from.
C22_ReportFromOneSnapshot ==
    pc = "Done" =>
        \E s \in storeStates :
            /\ FindExpenses(s[1], user, start, end) = expenses
            /\ FindBudgets(s[2], user) = budgets

\* The handler's locals are those of a request that has computed nothing.
FreshLocals ==
    /\ expenses = <<>> /\ budgets = <<>>
    /\ expenseFetches = 0 /\ budgetFetches = 0
    /\ totalExpenses = 0
    /\ categoryTotals = <<>> /\ expensesByCategory = <<>>
    /\ monthTotals = <<>> /\ expensesByMonth = <<>>
    /\ budgetComparison = <<>>
    /\ responses = <<>>

\* The report of the window of this request for the given rows
ReportFrom(expenseRows, budgetRows) ==
    Success(TotalExpenses(expenseRows),
            ByCategory(CategoryTotals(expenseRows, <<>>)),
            ByMonth(MonthTotals(expenseRows, <<>>)),
            BudgetComparison(budgetRows, <<>>, CategoryTotals(expenseRows, <<>>),
                             start, end))

\* C26: generating a report is read-only: no step of a report request,
\* whether it ends in Done or in Failed, creates, modifies or deletes an
\* expense or a budget record, and nothing computed for one request is kept
\* for a later one.
C26_ReportIsReadOnly ==
    /\ [][pc' # pc => UNCHANGED Store]_vars
    /\ [](pc = "Validating" => FreshLocals)
    /\ [](pc = "Done" => responses = <<ReportFrom(expenses, budgets)>>)

C26_Witness ==
    /\ pc = "Done"
    /\ writes = 0
    /\ expenseStore = StoredExpenses
    /\ budgetStore = StoredBudgets
    /\ storeStates = {<<expenseStore, budgetStore>>}
    /\ expenses # <<>>
    /\ budgets # <<>>

\* The rows of a table that belong to the user of this request
OwnedBy(table) == {r \in table : r.user_id = user}

====
